---------------------------- MODULE Spec2Model ----------------------------
(***************************************************************************)
(* aiguide (src/main.go): run() asks the generation service for a list of  *)
(* concepts, writes the title and the table of contents, and processChunks *)
(* fans the concepts out in chunks to cfg.Threads workers over a buffered  *)
(* channel, collects the answers in results[chunkID] and, after wg.Wait,   *)
(* writes the non-empty slots to the sink in slot order.                   *)
(*                                                                         *)
(* Text is modelled as a sequence of pieces.  A line of the concept list   *)
(* is a sequence of one-character strings; an answer of the generation     *)
(* service is a sequence of tokens (a run of whitespace, a code fence, the *)
(* word after the fence, a piece of body text).                            *)
(***************************************************************************)
EXTENDS Integers, Sequences, FiniteSets, TLC

\* ------------------------------------------------------------------ bounds
MaxN == 3
MaxC == 2
MaxT == 2
MaxLines == 2
MaxFairN == 2

\* --------------------------------------------------------- program constants
\* the default of --chunk and of --threads
DefaultChunkSize == 2
DefaultThreads == 1

VARIABLES
    cfg,        \* Config: ChunkSize, Threads (set by the flags, then read only)
    response,   \* what callAI answers to the list prompt: the raw lines
    pc,         \* position of the main goroutine in run / processChunks
    concepts,   \* the cleanList of generateConceptList
    numChunks,  \* processChunks: numChunks
    results,    \* processChunks: results, a function on 0..numChunks-1
    jobs,       \* the buffered channel jobs: the jobs sent and not yet received
    closed,     \* close(jobs) has been executed
    wg,         \* the WaitGroup counter
    spawned,    \* the i of the loop that starts the workers
    nextChunk,  \* the i of the enqueue loop
    wk,         \* per worker goroutine: where it is, and the job j it holds
    rIdx,       \* the index of the render loop over results
    out,        \* what has been written to the sink w, in order
    hist        \* history (not program state): what was sent, called, written

vars == <<cfg, response, pc, concepts, numChunks, results, jobs, closed, wg,
          spawned, nextChunk, wk, rIdx, out, hist>>

\* ------------------------------------------------------------- characters
Digits == {"0", "1", "2", "3", "4", "5", "6", "7", "8", "9"}
LowerLetters == {"a", "b"}
Space == " "

\* strings.ToLower on the characters of the model
ToLowerChar(c) ==
    IF c = "A" THEN "a" ELSE IF c = "B" THEN "b" ELSE c

\* unicodeIsDigit
unicodeIsDigit(b) == b \in Digits

\* ------------------------------------------------------ sequence helpers
RECURSIVE DropWhileHead(_, _)
DropWhileHead(s, ws) ==
    IF s # <<>> /\ Head(s) \in ws THEN DropWhileHead(Tail(s), ws) ELSE s

RECURSIVE DropWhileLast(_, _)
DropWhileLast(s, ws) ==
    IF s # <<>> /\ s[Len(s)] \in ws
    THEN DropWhileLast(SubSeq(s, 1, Len(s) - 1), ws)
    ELSE s

\* strings.TrimSpace: leading and trailing white space removed
TrimSpace(s, ws) == DropWhileLast(DropWhileHead(s, ws), ws)

HasPrefix(s, p) == Len(s) >= Len(p) /\ SubSeq(s, 1, Len(p)) = p
HasSuffix(s, p) ==
    Len(s) >= Len(p) /\ SubSeq(s, Len(s) - Len(p) + 1, Len(s)) = p

\* strings.TrimPrefix / strings.TrimSuffix: one occurrence, if present
TrimPrefix(s, p) == IF HasPrefix(s, p) THEN SubSeq(s, Len(p) + 1, Len(s)) ELSE s
TrimSuffix(s, p) == IF HasSuffix(s, p) THEN SubSeq(s, 1, Len(s) - Len(p)) ELSE s

RECURSIVE SelectSeqIn(_, _)
SelectSeqIn(s, keep) ==
    IF s = <<>> THEN <<>>
    ELSE IF Head(s) \in keep THEN <<Head(s)>> \o SelectSeqIn(Tail(s), keep)
    ELSE SelectSeqIn(Tail(s), keep)

\* the index of the first c in s, 0 when there is none
RECURSIVE IndexFrom(_, _, _)
IndexFrom(s, c, i) ==
    IF i > Len(s) THEN 0 ELSE IF s[i] = c THEN i ELSE IndexFrom(s, c, i + 1)

\* all sequences over S of length at most n
RECURSIVE SeqsUpTo(_, _)
SeqsUpTo(S, n) ==
    IF n = 0 THEN {<<>>}
    ELSE LET shorter == SeqsUpTo(S, n - 1)
         IN  shorter \cup {Append(s, x) : s \in shorter, x \in S}

\* Go's integer division truncates toward zero
GoDiv(a, b) ==
    LET absA == IF a < 0 THEN 0 - a ELSE a
        absB == IF b < 0 THEN 0 - b ELSE b
        q    == absA \div absB
    IN  IF (a < 0) = (b < 0) THEN q ELSE 0 - q


\* ------------------------------------------------- generateConceptList
\* white space of a line of the list response
LineSpace == {Space}

\* the test of one scanned line: not empty, and a digit or "-" first
AcceptLine(line) ==
    line # <<>> /\ (unicodeIsDigit(line[1]) \/ HasPrefix(line, <<"-">>))

\* the scanner loop: each line trimmed, the accepted ones appended in order
RECURSIVE cleanList(_)
cleanList(lines) ==
    IF lines = <<>> THEN <<>>
    ELSE LET line == TrimSpace(Head(lines), LineSpace)
         IN  IF AcceptLine(line)
             THEN <<line>> \o cleanList(Tail(lines))
             ELSE cleanList(Tail(lines))

\* ---------------------------------------------------- writeHeaderAndToC
\* regexp [^a-z0-9 ]+ : the characters that survive ReplaceAllString(.., "")
SlugChars == LowerLetters \cup Digits \cup {Space}

\* strings.SplitN(c, " ", 2): one part when c holds no space, else two
SplitN2(c) ==
    LET i == IndexFrom(c, Space, 1)
    IN  IF i = 0 THEN <<c>>
        ELSE <<SubSeq(c, 1, i - 1), SubSeq(c, i + 1, Len(c))>>

\* the slug of parts[1]: lower-cased, stripped, trimmed, spaces to hyphens
Slug(text) ==
    LET lower   == [i \in 1..Len(text) |-> ToLowerChar(text[i])]
        content == TrimSpace(SelectSeqIn(lower, SlugChars), LineSpace)
    IN  [i \in 1..Len(content) |->
            IF content[i] = Space THEN "-" ELSE content[i]]

\* fullSlug: parts[0] without one trailing ".", a hyphen, the slug
FullSlug(parts) == TrimSuffix(parts[1], <<".">>) \o <<"-">> \o Slug(parts[2])

\* the loop over concepts: a concept of fewer than two parts is skipped
RECURSIVE TocEntries(_)
TocEntries(cs) ==
    IF cs = <<>> THEN <<>>
    ELSE LET c     == Head(cs)
             parts == SplitN2(c)
         IN  IF Len(parts) < 2
             THEN TocEntries(Tail(cs))
             ELSE <<[label |-> c, anchor |-> FullSlug(parts)]>>
                  \o TocEntries(Tail(cs))

\* ------------------------------------------------ processChunks: helpers
\* the tokens of an answer of the generation service
Newline == "\n"
\* the code fence, three backquotes
Fence == "<fence>"
AnswerSpace == {Newline}

\* a division that forgets to round up
NumChunksRoundedDown(total, chunkSize) == GoDiv(total, chunkSize)

\* numChunks := (total + cfg.ChunkSize - 1) / cfg.ChunkSize
NumChunksOf(total, chunkSize) == GoDiv(total + chunkSize - 1, chunkSize)

\* the content of a failed chunk (fmt.Sprintf of the error branch)
ErrorSection(startIdx, endIdx, err) ==
    <<"## Error generating section ", ToString(startIdx + 1), "-",
      ToString(endIdx), "\n\nAPI Error: ">> \o err

\* TrimSpace, TrimPrefix fence+"markdown", TrimPrefix fence, TrimSuffix fence
Normalise(content) ==
    TrimSuffix(
        TrimPrefix(
            TrimPrefix(TrimSpace(content, AnswerSpace), <<Fence, "markdown">>),
            <<Fence>>),
        <<Fence>>)

\* what the worker stores for job j when callAI returned outcome o
ChunkContent(j, o) ==
    LET startIdx == j.chunkID * cfg.ChunkSize
        endIdx   == startIdx + Len(j.items)
    IN  Normalise(IF o.ok THEN o.text
                  ELSE ErrorSection(startIdx, endIdx, o.text))

\* a worker that stores its answer in the next free slot, in arrival order
SlotIndexByArrival(j) ==
    Cardinality({i \in DOMAIN results : hist.writes[i] > 0})

\* the slot a worker writes for job j: results[j.chunkID]
SlotIndex(j) == j.chunkID

\* a loop that starts one worker too many: i <= cfg.Threads
SpawnLimitOffByOne == cfg.Threads + 1

\* the bound of the loop that starts the workers: i < cfg.Threads
SpawnLimit == cfg.Threads

\* a render loop that starts without the join
WaitNoBarrier == TRUE

\* wg.Wait() returns when the counter is zero
WaitReady == wg = 0

\* a channel made one place too small
JobsCapacityOneShort == numChunks - 1

\* jobs := make(chan job, numChunks): the capacity of the channel
JobsCapacity == numChunks

\* a producer that forgets close(jobs)
CloseForgotten == FALSE

\* close(jobs): the channel is closed from then on
ClosedAfterClose == TRUE

\* a worker that calls again, once, when the call failed
RetryOnError(j, o) ==
    IF o.ok \/ hist.writes[j.chunkID] >= 1
    THEN [st |-> "recv", job |-> [chunkID |-> 0 - 1, items |-> <<>>]]
    ELSE [st |-> "call", job |-> j]

\* a worker that leaves its loop when the call failed
StopOnError(j, o) ==
    IF o.ok
    THEN [st |-> "recv", job |-> [chunkID |-> 0 - 1, items |-> <<>>]]
    ELSE [st |-> "exited", job |-> [chunkID |-> 0 - 1, items |-> <<>>]]

\* the end of the loop body, on success and on error alike: the worker
\* goes back to the range over jobs, holding no job
AfterCall(j, o) == [st |-> "recv", job |-> [chunkID |-> 0 - 1, items |-> <<>>]]

\* the bounds of the slice concepts[start:end] of chunk i
SliceStart(i) == i * cfg.ChunkSize
SliceEnd(i) ==
    LET end == SliceStart(i) + cfg.ChunkSize
    IN  IF end > Len(concepts) THEN Len(concepts) ELSE end

\* a slice expression panics unless 0 <= start <= end <= len
SliceOK(start, end) == 0 <= start /\ start <= end /\ end <= Len(concepts)

\* ------------------------------------------------------------ the inputs
\* answers of the generation service to a chunk prompt
Texts ==
    { <<>>,
      <<Newline>>,
      <<"body">>,
      <<Fence, "markdown", Newline, "body", Newline, Fence>>,
      <<Fence, "markdown", Fence>> }

\* err.Error() of a failed callAI: "no choices returned", an API error
\* whose body ends in a newline, an API message that ends in a fence
Reasons ==
    { <<"no choices returned">>,
      <<"API error: 500 - body", Newline>>,
      <<"API returned error: see", Fence>> }

Outcomes ==
    [ok : {TRUE}, text : Texts] \cup [ok : {FALSE}, text : Reasons]

\* the list the prompt asks for: n lines "k. a"
NumberedList(n) == [k \in 1..n |-> <<ToString(k), ".", Space, "a">>]

\* lines the service may answer instead
RawLines ==
    { <<"1", ".", Space, "a">>,
      <<"2", ".", Space, "B", "!", Space, "a">>,
      <<Space, "1", ".", Space, "A", Space>>,
      <<"2", ".", "a">>,
      <<"-", Space, "a">>,
      <<"a", Space, "b">>,
      <<>> }

Workers == 0..MaxT
NoJob == [chunkID |-> 0 - 1, items |-> <<>>]

\* the outcome of the call of a chunk, before the call has returned
NoFate == [ret |-> FALSE, ok |-> TRUE, text |-> <<>>]

Running == pc \notin {"done", "exit1", "panic"}

\* ------------------------------------------------------------------ Init
InitRest ==
    /\ pc = "generate"
    /\ concepts = <<>>
    /\ numChunks = 0
    /\ results = <<>>
    /\ jobs = <<>>
    /\ closed = FALSE
    /\ wg = 0
    /\ spawned = 0
    /\ nextChunk = 0
    /\ wk = [w \in Workers |-> [st |-> "none", job |-> NoJob]]
    /\ rIdx = 0
    /\ out = <<>>
    /\ hist = [enq      |-> <<>>,
               deq      |-> <<>>,
               calls    |-> <<>>,
               writes   |-> <<>>,
               origin   |-> <<>>,
               fate     |-> <<>>,
               overtook |-> FALSE,
               closes   |-> 0]

\* any flags, and the numbered list the prompt asks for
Init ==
    /\ cfg \in [ChunkSize : (0 - MaxC)..MaxC, Threads : (0 - 1)..MaxT]
    /\ response \in {NumberedList(n) : n \in 0..MaxN}
    /\ InitRest

\* any flags, and a shorter numbered list (for the runs checked under
\* fairness)
InitFair ==
    /\ cfg \in [ChunkSize : (0 - MaxC)..MaxC, Threads : (0 - 1)..MaxT]
    /\ response \in {NumberedList(n) : n \in 0..MaxFairN}
    /\ InitRest

\* the default flags, and any list of lines
InitToC ==
    /\ cfg = [ChunkSize |-> DefaultChunkSize, Threads |-> DefaultThreads]
    /\ response \in SeqsUpTo(RawLines, MaxLines)
    /\ InitRest

\* ------------------------------------------------------------------- run
\* run, lines 100-110: the list call fails, or cleanList is empty, and the
\* process exits with status 1; else the concepts are kept
GenerateConceptList ==
    /\ pc = "generate"
    /\ \E ok \in BOOLEAN :
          IF ok
          THEN /\ concepts' = cleanList(response)
               /\ pc' = IF Len(cleanList(response)) = 0 THEN "exit1" ELSE "toc"
          ELSE /\ concepts' = concepts
               /\ pc' = "exit1"
    /\ UNCHANGED <<cfg, response, numChunks, results, jobs, closed, wg,
                   spawned, nextChunk, wk, rIdx, out, hist>>

\* writeHeaderAndToC: the title, then the table of contents
WriteHeaderAndToC ==
    /\ pc = "toc"
    /\ out' = out \o <<[kind |-> "title"],
                       [kind |-> "toc", entries |-> TocEntries(concepts)]>>
    /\ pc' = "chunks"
    /\ UNCHANGED <<cfg, response, concepts, numChunks, results, jobs, closed,
                   wg, spawned, nextChunk, wk, rIdx, hist>>

\* --------------------------------------------------------- processChunks
\* lines 217-228: numChunks, results, jobs.  The division panics on a zero
\* chunk size and make panics on a negative length.
ProcessChunksStart ==
    /\ pc = "chunks"
    /\ IF cfg.ChunkSize = 0
          \/ NumChunksOf(Len(concepts), cfg.ChunkSize) < 0
       THEN /\ pc' = "panic"
            /\ UNCHANGED <<numChunks, results, hist>>
       ELSE LET n == NumChunksOf(Len(concepts), cfg.ChunkSize)
            IN  /\ numChunks' = n
                /\ results' = [i \in 0..(n - 1) |-> <<>>]
                /\ hist' = [hist EXCEPT
                              !.deq    = [i \in 0..(n - 1) |-> 0],
                              !.calls  = [i \in 0..(n - 1) |-> 0],
                              !.writes = [i \in 0..(n - 1) |-> 0],
                              !.origin = [i \in 0..(n - 1) |-> 0 - 1],
                              !.fate   = [i \in 0..(n - 1) |-> NoFate]]
                /\ pc' = "spawn"
    /\ UNCHANGED <<cfg, response, concepts, jobs, closed, wg, spawned,
                   nextChunk, wk, rIdx, out>>

\* lines 230-233: one turn of the loop that starts the workers
SpawnWorker ==
    /\ pc = "spawn"
    /\ IF spawned < SpawnLimit
       THEN /\ wg' = wg + 1
            /\ wk' = [wk EXCEPT ![spawned] = [st |-> "recv", job |-> NoJob]]
            /\ spawned' = spawned + 1
            /\ pc' = pc
       ELSE /\ pc' = "enqueue"
            /\ UNCHANGED <<wg, wk, spawned>>
    /\ UNCHANGED <<cfg, response, concepts, numChunks, results, jobs, closed,
                   nextChunk, rIdx, out, hist>>

\* lines 268-278: one turn of the enqueue loop; the send blocks while the
\* channel holds numChunks jobs, the slice expression may panic
Enqueue ==
    /\ pc = "enqueue"
    /\ IF nextChunk < numChunks
       THEN IF SliceOK(SliceStart(nextChunk), SliceEnd(nextChunk))
            THEN LET j == [chunkID |-> nextChunk,
                           items   |-> SubSeq(concepts,
                                              SliceStart(nextChunk) + 1,
                                              SliceEnd(nextChunk))]
                 IN  /\ Len(jobs) < JobsCapacity
                     /\ jobs' = Append(jobs, j)
                     /\ hist' = [hist EXCEPT !.enq = Append(@, j)]
                     /\ nextChunk' = nextChunk + 1
                     /\ pc' = pc
            ELSE /\ pc' = "panic"
                 /\ UNCHANGED <<jobs, hist, nextChunk>>
       ELSE /\ pc' = "close"
            /\ UNCHANGED <<jobs, hist, nextChunk>>
    /\ UNCHANGED <<cfg, response, concepts, numChunks, results, closed, wg,
                   spawned, wk, rIdx, out>>

\* line 279: close(jobs)
CloseJobs ==
    /\ pc = "close"
    /\ closed' = ClosedAfterClose
    /\ hist' = [hist EXCEPT !.closes = @ + 1]
    /\ pc' = "wait"
    /\ UNCHANGED <<cfg, response, concepts, numChunks, results, jobs, wg,
                   spawned, nextChunk, wk, rIdx, out>>

\* line 281: wg.Wait()
Wait ==
    /\ pc = "wait"
    /\ WaitReady
    /\ rIdx' = 0
    /\ pc' = "render"
    /\ UNCHANGED <<cfg, response, concepts, numChunks, results, jobs, closed,
                   wg, spawned, nextChunk, wk, out, hist>>

\* lines 283-288: one turn of the render loop, then the return to run.
\* A block carries, as history, the chunk whose answer it holds.
Render ==
    /\ pc = "render"
    /\ IF rIdx < numChunks
       THEN /\ out' = IF results[rIdx] # <<>>
                      THEN out \o <<[kind  |-> "block",
                                     text  |-> results[rIdx],
                                     chunk |-> hist.origin[rIdx]],
                                    [kind |-> "sep"]>>
                      ELSE out
            /\ rIdx' = rIdx + 1
            /\ pc' = pc
       ELSE /\ pc' = "done"
            /\ UNCHANGED <<out, rIdx>>
    /\ UNCHANGED <<cfg, response, concepts, numChunks, results, jobs, closed,
                   wg, spawned, nextChunk, wk, hist>>

\* ------------------------------------------------------------ the workers
\* line 234: the range over jobs receives the oldest job; line 250: callAI
Dequeue(w) ==
    /\ Running
    /\ wk[w].st = "recv"
    /\ jobs # <<>>
    /\ wk' = [wk EXCEPT ![w] = [st |-> "call", job |-> Head(jobs)]]
    /\ jobs' = Tail(jobs)
    /\ hist' = [hist EXCEPT !.deq[Head(jobs).chunkID] = @ + 1,
                            !.calls[Head(jobs).chunkID] = @ + 1]
    /\ UNCHANGED <<cfg, response, pc, concepts, numChunks, results, closed,
                   wg, spawned, nextChunk, rIdx, out>>

\* lines 250-263: callAI returns text or an error, the content is
\* normalised and stored under the mutex; the worker loops
Finish(w) ==
    /\ Running
    /\ wk[w].st = "call"
    /\ \E o \in Outcomes :
          LET j    == wk[w].job
              slot == SlotIndex(j)
          IN  /\ results' = [results EXCEPT ![slot] = ChunkContent(j, o)]
              /\ hist' = [hist EXCEPT
                            !.writes[slot] = @ + 1,
                            !.origin[slot] = j.chunkID,
                            !.fate[j.chunkID] = [ret |-> TRUE, ok |-> o.ok,
                                                 text |-> o.text],
                            !.overtook = @ \/ (\E i \in 0..(j.chunkID - 1) :
                                                  ~hist.fate[i].ret)]
              /\ wk' = [wk EXCEPT ![w] = AfterCall(j, o)]
    /\ UNCHANGED <<cfg, response, pc, concepts, numChunks, jobs, closed, wg,
                   spawned, nextChunk, rIdx, out>>

\* lines 233-234: the channel is closed and empty, the range ends, wg.Done()
WorkerExit(w) ==
    /\ Running
    /\ wk[w].st = "recv"
    /\ jobs = <<>>
    /\ closed
    /\ wk' = [wk EXCEPT ![w] = [st |-> "exited", job |-> NoJob]]
    /\ wg' = wg - 1
    /\ UNCHANGED <<cfg, response, pc, concepts, numChunks, results, jobs,
                   closed, spawned, nextChunk, rIdx, out, hist>>

Next ==
    \/ GenerateConceptList
    \/ WriteHeaderAndToC
    \/ ProcessChunksStart
    \/ SpawnWorker
    \/ Enqueue
    \/ CloseJobs
    \/ Wait
    \/ Render
    \/ \E w \in Workers : Dequeue(w)
    \/ \E w \in Workers : Finish(w)
    \/ \E w \in Workers : WorkerExit(w)

Spec == Init /\ [][Next]_vars

SpecToC == InitToC /\ [][Next]_vars

\* the main goroutine and every worker goroutine keep being scheduled, and
\* every generation call returns (the client has a 120 s timeout)
Fairness ==
    /\ WF_vars(GenerateConceptList)
    /\ WF_vars(WriteHeaderAndToC)
    /\ WF_vars(ProcessChunksStart)
    /\ WF_vars(SpawnWorker)
    /\ WF_vars(Enqueue)
    /\ WF_vars(CloseJobs)
    /\ WF_vars(Wait)
    /\ WF_vars(Render)
    /\ \A w \in Workers :
          /\ WF_vars(Dequeue(w))
          /\ WF_vars(Finish(w))
          /\ WF_vars(WorkerExit(w))

FairSpec == InitFair /\ [][Next]_vars /\ Fairness

\* ============================================================ the claims
\* vocabulary of the claims
N == Len(concepts)
C == cfg.ChunkSize
T == cfg.Threads
Chunks == 0..(numChunks - 1)
IsBlock(e) == e.kind = "block"
IsSep(e) == e.kind = "sep"
Blocks == SelectSeq(out, IsBlock)
Separators == SelectSeq(out, IsSep)
Returned(k) == hist.fate[k].ret
Failed(k) == hist.fate[k].ret /\ ~hist.fate[k].ok
\* chunks dequeued by a worker whose outcome is not yet in the result store
InFlight == {k \in DOMAIN hist.deq : hist.deq[k] > 0 /\ ~hist.fate[k].ret}
CeilDiv(a, b) == IF a % b = 0 THEN a \div b ELSE (a \div b) + 1
RECURSIVE Flatten(_)
Flatten(js) ==
    IF js = <<>> THEN <<>> ELSE Head(js).items \o Flatten(Tail(js))
PastEnqueue == pc \in {"close", "wait", "render", "done"}
PastJoin == pc \in {"render", "done"}

\* C1: for N >= 1, C >= 1, T >= 1 and every interleaving, the chunk blocks
\* in the sink are in strictly increasing chunk-index order: a block of
\* chunk i precedes a block of chunk j whenever i < j, whichever call
\* returned first.
C1_BlocksInChunkOrder ==
    (N >= 1 /\ C >= 1 /\ T >= 1) =>
        \A p, q \in 1..Len(Blocks) :
            p < q => Blocks[p].chunk < Blocks[q].chunk

\* C1 witness: the run is over, a higher chunk returned before a lower one,
\* and both have their blocks in the sink.
C1_Witness ==
    /\ pc = "done"
    /\ T >= 2
    /\ hist.overtook
    /\ Len(Blocks) = numChunks
    /\ numChunks >= 2

\* C2 (as claimed): when the call of chunk k failed with reason r, the
\* k-th block of the finished document is a placeholder naming the range
\* k*C+1 .. k*C+len(items of k) and the reason r (up to trailing white space
\* and fence of r), and every block holds what its own chunk's outcome
\* gives, whatever happened to the other chunks.
C2_PlaceholderAtPositionK ==
    pc = "done" =>
        /\ \A k \in Chunks :
              Failed(k) =>
                 /\ Len(Blocks) > k
                 /\ LET text == Blocks[k + 1].text
                        a    == k * C + 1
                        b    == k * C + Len(hist.enq[k + 1].items)
                        head == <<"## Error generating section ", ToString(a),
                                  "-", ToString(b), "\n\nAPI Error: ">>
                    IN  /\ HasPrefix(text, head)
                        /\ DropWhileLast(SubSeq(text, Len(head) + 1, Len(text)),
                                         {Newline, Fence})
                             = DropWhileLast(hist.fate[k].text, {Newline, Fence})
        /\ \A p \in 1..Len(Blocks) :
              LET j == Blocks[p].chunk
              IN  Blocks[p].text
                    = ChunkContent(hist.enq[j + 1],
                                   [ok |-> hist.fate[j].ok,
                                    text |-> hist.fate[j].text])

\* C3 (as claimed): after processChunks returns, with every call returned
\* (success with any text, or failure), the sink holds exactly one block
\* for every chunk, each followed by a separator: numChunks separators.
C3_OneBlockPerChunk ==
    (pc = "done" /\ \A k \in Chunks : Returned(k)) =>
        /\ Len(Blocks) = numChunks
        /\ Len(Separators) = numChunks
        /\ \A k \in Chunks : Blocks[k + 1].chunk = k
        /\ \A p \in 1..Len(out) :
              IsBlock(out[p]) => p < Len(out) /\ IsSep(out[p + 1])

\* C4: in every reachable state the number of chunks in flight (dequeued,
\* outcome not yet recorded) is at most T, for T >= 1.
C4_InFlightAtMostT ==
    T >= 1 => Cardinality(InFlight) <= T

\* C4 witness: T = 2 chunks are in flight while a third job waits in the
\* queue.
C4_Witness ==
    /\ T = 2
    /\ Cardinality(InFlight) = T
    /\ jobs # <<>>

\* C5: for N >= 1 and C >= 1 the jobs are enqueued with chunk ids 0, 1, ..
\* in increasing order; once the loop is over there are ceil(N/C) of them,
\* every chunk but the last has C items, the last has N mod C (C when C
\* divides N), none is empty, and the items concatenated in chunk order are
\* the concepts.
C5_Partition ==
    (N >= 1 /\ C >= 1) =>
        /\ \A i \in 1..Len(hist.enq) : hist.enq[i].chunkID = i - 1
        /\ PastEnqueue =>
              /\ Len(hist.enq) = CeilDiv(N, C)
              /\ \A i \in 1..Len(hist.enq) :
                    /\ Len(hist.enq[i].items) >= 1
                    /\ i < Len(hist.enq) => Len(hist.enq[i].items) = C
                    /\ i = Len(hist.enq) =>
                          Len(hist.enq[i].items)
                             = (IF N % C = 0 THEN C ELSE N % C)
              /\ Flatten(hist.enq) = concepts

\* C5 witness: three concepts in chunks of two are enqueued, the last chunk
\* holding the one left over.
C5_Witness ==
    /\ pc = "close"
    /\ N = 3
    /\ C = 2
    /\ Len(hist.enq) = 2
    /\ Len(hist.enq[2].items) = 1

\* C6 (as claimed): once wg.Wait is passed, every chunk has produced
\* exactly one result and every slot has been written.
C6_AllSlotsWrittenAfterJoin ==
    PastJoin =>
        \A k \in Chunks : Returned(k) /\ hist.writes[k] = 1

\* C7 (as claimed): with zero items, a chunk size <= 0 or a thread count
\* <= 0, no job is enqueued, no chunk call is made and the run does not
\* complete as a success.
C7_ConfigErrorHalts ==
    (pc # "generate" /\ (N = 0 \/ C <= 0 \/ T <= 0)) =>
        /\ hist.enq = <<>>
        /\ \A k \in DOMAIN hist.calls : hist.calls[k] = 0
        /\ pc # "done"

\* C8 (as claimed): the table of contents has one entry per concept, in
\* order: as many entries as concepts, the k-th with the k-th label.
C8_TocListsEveryItem ==
    \A p \in 1..Len(out) :
        out[p].kind = "toc" =>
            /\ Len(out[p].entries) = N
            /\ \A k \in 1..Len(out[p].entries) :
                  k <= N /\ out[p].entries[k].label = concepts[k]

\* C9 (as claimed): no chunk is ever dequeued, called or written more than
\* once, and when the run is over every chunk was dequeued, called and
\* written exactly once.
C9_ExactlyOnce ==
    /\ \A k \in DOMAIN hist.deq :
          hist.deq[k] <= 1 /\ hist.calls[k] <= 1 /\ hist.writes[k] <= 1
    /\ pc = "done" =>
          \A k \in Chunks :
              hist.deq[k] = 1 /\ hist.calls[k] = 1 /\ hist.writes[k] = 1

\* C10: while the render loop reads results (and after it), every worker
\* that was started has exited, and all of cfg.Threads were started: no
\* worker can still write a slot.
C10_JoinBeforeRead ==
    PastJoin =>
        /\ spawned = (IF T > 0 THEN T ELSE 0)
        /\ \A w \in Workers :
              wk[w].st = (IF w < spawned THEN "exited" ELSE "none")

\* C10 witness: the render loop has read a slot that a worker wrote, with
\* two workers started and exited.
C10_Witness ==
    /\ pc = "render"
    /\ rIdx >= 1
    /\ T = 2
    /\ hist.writes[0] = 1
    /\ wk[0].st = "exited"
    /\ wk[1].st = "exited"

\* every worker that the flags ask for was started and has exited
AllWorkersExited ==
    /\ spawned = (IF T > 0 THEN T ELSE 0)
    /\ \A w \in Workers : w < spawned => wk[w].st = "exited"

StateOf(h, k) ==
    IF h.deq[k] = 0 THEN "Pending"
    ELSE IF ~h.fate[k].ret THEN "InFlight"
    ELSE IF h.fate[k].ok THEN "Done" ELSE "Failed"

\* the chunks a worker holds in a generation call
HeldBy(w) == IF wk[w].st = "call" THEN {wk[w].job.chunkID} ELSE {}

\* in every state: a chunk is InFlight exactly when one worker holds it in
\* its call, a worker outside a call holds no job, and a chunk that is Done
\* or Failed has its outcome in its own slot, written once
C12_StateInv ==
    /\ \A k \in DOMAIN hist.deq :
          /\ (StateOf(hist, k) = "InFlight") =
                (Cardinality({w \in Workers : k \in HeldBy(w)}) = 1)
          /\ Cardinality({w \in Workers : k \in HeldBy(w)}) <= 1
          /\ StateOf(hist, k) \in {"Done", "Failed"} =>
                /\ hist.writes[k] = 1
                /\ hist.origin[k] = k
                /\ results[k] = ChunkContent(hist.enq[k + 1],
                                             [ok |-> hist.fate[k].ok,
                                              text |-> hist.fate[k].text])
          /\ StateOf(hist, k) \in {"Pending", "InFlight"} =>
                hist.writes[k] = 0
    /\ \A w \in Workers : wk[w].st # "call" => wk[w].job = NoJob

\* in every step: the only changes of state are Pending -> InFlight, by a
\* worker receiving the job from the channel, and InFlight -> Done or
\* Failed, by the worker that holds it writing the slot; nothing changes
\* for a chunk that is Done or Failed, and no chunk is sent, received or
\* called a second time
C12_StepOK ==
    (DOMAIN hist'.deq = DOMAIN hist.deq) =>
        \A k \in DOMAIN hist.deq :
            LET a == StateOf(hist, k)
                b == StateOf(hist', k)
            IN  /\ a # b =>
                      <<a, b>> \in {<<"Pending", "InFlight">>,
                                    <<"InFlight", "Done">>,
                                    <<"InFlight", "Failed">>}
                /\ (a = "Pending" /\ b = "InFlight") =>
                      /\ jobs # <<>>
                      /\ Head(jobs).chunkID = k
                      /\ jobs' = Tail(jobs)
                      /\ \E w \in Workers :
                            /\ wk[w].st = "recv"
                            /\ wk'[w] = [st |-> "call", job |-> Head(jobs)]
                /\ (a = "InFlight" /\ b # a) =>
                      /\ \E w \in Workers :
                            /\ k \in HeldBy(w)
                            /\ wk'[w] = [st |-> "recv", job |-> NoJob]
                      /\ hist'.writes[k] = 1
                /\ a \in {"Done", "Failed"} =>
                      /\ hist'.fate[k] = hist.fate[k]
                      /\ hist'.writes[k] = hist.writes[k]
                      /\ results'[k] = results[k]
                /\ a # "Pending" =>
                      /\ hist'.deq[k] = hist.deq[k]
                      /\ hist'.calls[k] = hist.calls[k]
                      /\ \A i \in 1..Len(jobs') : jobs'[i].chunkID # k
                /\ Len(SelectSeq(hist'.enq, LAMBDA j : j.chunkID = k)) <= 1

\* C12: each chunk follows Pending -> InFlight -> {Done, Failed} and
\* nothing else: InFlight only by a dequeue, Done only on a successful
\* call and Failed only on an error; Done and Failed are terminal, no chunk
\* is re-enqueued or retried, and the outcome is in the chunk's slot before
\* the worker receives another job.
C12_ChunkStateMachine == [] C12_StateInv /\ [][C12_StepOK]_vars

\* C12 witness: one worker has taken two chunks in turn; the first failed,
\* the second succeeded, and both outcomes are final.
C12_Witness ==
    /\ pc = "done"
    /\ T = 1
    /\ numChunks >= 2
    /\ StateOf(hist, 0) = "Failed"
    /\ StateOf(hist, 1) = "Done"

\* in every state: a worker has exited only if the channel is closed and
\* drained, and a finished run in which some call failed has the outcome
\* of every chunk
C13_StateInv ==
    /\ \A w \in Workers : wk[w].st = "exited" => (closed /\ jobs = <<>>)
    /\ (pc = "done" /\ \E k \in Chunks : Failed(k)) =>
          \A k \in Chunks : Returned(k) /\ hist.deq[k] = 1

\* in every step: a worker leaves a call, failed or not, only to the
\* receive of its loop, and exits only from that receive, on the closed
\* and drained channel
C13_StepOK ==
    \A w \in Workers :
        /\ (wk[w].st = "call" /\ wk'[w] # wk[w]) => wk'[w].st = "recv"
        /\ (wk[w].st # "exited" /\ wk'[w].st = "exited") =>
              (wk[w].st = "recv" /\ closed /\ jobs = <<>>)

\* C13: a generation failure never stops a worker or the pool: after
\* recording the failure the worker goes on receiving jobs, so for any set
\* of failing chunks, all of them and T = 1 included, every chunk is still
\* dequeued and processed, and failures do not reduce the live workers.
C13_FailureDoesNotStopPool == [] C13_StateInv /\ [][C13_StepOK]_vars

\* C13 witness: a single worker, at least two chunks, every call failed,
\* and the run is over.
C13_Witness ==
    /\ pc = "done"
    /\ T = 1
    /\ numChunks >= 2
    /\ \A k \in Chunks : Failed(k)

\* C14: with N >= 1, C >= 1 and T >= 1, when every generation call
\* returns and the goroutines are scheduled fairly, processChunks, once
\* entered, returns: all T workers exit and the join barrier is passed, in
\* every interleaving, also with more workers than chunks.
C14_Termination ==
    (pc = "chunks" /\ N >= 1 /\ C >= 1 /\ T >= 1)
        ~> (pc = "done" /\ AllWorkersExited)

\* C14 witness: two workers and a single chunk; the run is over and both
\* workers have exited, one of them without ever receiving a job.
C14_Witness ==
    /\ pc = "done"
    /\ T = 2
    /\ numChunks = 1
    /\ hist.deq[0] = 1
    /\ wk[0].st = "exited"
    /\ wk[1].st = "exited"

\* the strictly sequential execution: chunk k, k+1, .. one after the other,
\* each called with the outcome it has in the history, its content
\* normalised and written unless empty
RECURSIVE SequentialTexts(_)
SequentialTexts(k) ==
    IF k >= CeilDiv(N, C) THEN <<>>
    ELSE LET last    == IF (k + 1) * C > N THEN N ELSE (k + 1) * C
             j       == [chunkID |-> k,
                         items   |-> SubSeq(concepts, k * C + 1, last)]
             content == ChunkContent(j, [ok   |-> hist.fate[k].ok,
                                         text |-> hist.fate[k].text])
         IN  (IF content # <<>> THEN <<content>> ELSE <<>>)
             \o SequentialTexts(k + 1)

\* C15: for every T >= 1 and every interleaving, the chunk blocks in the
\* sink of a finished run are, given the outcome of each chunk's call,
\* those of the strictly sequential execution; and with T = 1 the chunks
\* are dequeued and called one at a time in increasing chunk order.
C15_SameAsSequential ==
    (T >= 1 /\ C >= 1) =>
        /\ pc = "done" =>
              [p \in 1..Len(Blocks) |-> Blocks[p].text] = SequentialTexts(0)
        /\ T = 1 =>
              /\ Cardinality(InFlight) <= 1
              /\ \A k \in DOMAIN hist.deq :
                    hist.deq[k] > 0 =>
                        \A i \in 0..(k - 1) : Returned(i)

\* C15 witness: two workers, a higher chunk returned before a lower one,
\* one call failed, and the finished document holds at least two blocks.
C15_Witness ==
    /\ pc = "done"
    /\ T = 2
    /\ hist.overtook
    /\ Len(Blocks) >= 2
    /\ \E k \in Chunks : Failed(k)

\* C16 (as claimed): the anchors that the table of contents gives to two
\* items at different positions of the accepted list are distinct.
C16_AnchorsDistinct ==
    \A p \in 1..Len(out) :
        out[p].kind = "toc" =>
            \A a, b \in 1..Len(out[p].entries) :
                a # b => out[p].entries[a].anchor # out[p].entries[b].anchor

\* in every state: a job in the channel or in a worker's hands is the job
\* that was sent for its chunk, items included
C17_StateInv ==
    /\ \A i \in 1..Len(jobs) : jobs[i] = hist.enq[jobs[i].chunkID + 1]
    /\ \A w \in Workers :
          wk[w].st = "call" => wk[w].job = hist.enq[wk[w].job.chunkID + 1]

\* in every step that writes slot k: the writer is a worker that holds the
\* job of chunk k; no other slot, no job in the channel, no other worker's
\* job and no concept changes; and results changes in no other worker step
C17_StepOK ==
    (DOMAIN hist'.writes = DOMAIN hist.writes) =>
        /\ \A k \in DOMAIN hist.writes :
              hist'.writes[k] # hist.writes[k] =>
                 /\ \E w \in Workers :
                       /\ wk[w].st = "call"
                       /\ wk[w].job.chunkID = k
                       /\ wk'[w] # wk[w]
                       /\ \A v \in Workers \ {w} : wk'[v] = wk[v]
                 /\ \A i \in DOMAIN results \ {k} : results'[i] = results[i]
                 /\ DOMAIN results' = DOMAIN results
                 /\ jobs' = jobs
                 /\ concepts' = concepts
                 /\ hist'.enq = hist.enq
        /\ results' # results =>
              \E k \in DOMAIN hist.writes : hist'.writes[k] # hist.writes[k]

\* C17: a worker that records the outcome of chunk k changes results[k]
\* only: every other slot, the channel's contents and the items of every
\* chunk stay as they are, and no worker writes the slot of a chunk it did
\* not dequeue.
C17_SlotWriteFrame == [] C17_StateInv /\ [][C17_StepOK]_vars

\* C17 witness: chunk 0 has its content in its slot while another worker
\* is in the call of chunk 1 and chunk 2 waits in the channel.
C17_Witness ==
    /\ numChunks = 3
    /\ hist.writes[0] = 1
    /\ results[0] # <<>>
    /\ results[1] = <<>>
    /\ \E w \in Workers : wk[w].st = "call" /\ wk[w].job.chunkID = 1
    /\ Len(jobs) = 1
    /\ jobs[1].chunkID = 2

\* in every state: the producer in its loop can take its next step (the
\* send does not block), the channel never holds more than numChunks jobs,
\* it has been closed at most once, and when it is closed every job has
\* been sent
C18_StateInv ==
    /\ pc = "enqueue" => ENABLED Enqueue
    /\ pc = "close" => ENABLED CloseJobs
    /\ Len(jobs) <= numChunks
    /\ hist.closes <= 1
    /\ closed = (hist.closes = 1)
    /\ closed =>
          /\ nextChunk = numChunks
          /\ Len(hist.enq) = numChunks

\* in every step: a closed channel stays closed and receives no job
C18_StepOK ==
    closed =>
        /\ closed'
        /\ hist'.enq = hist.enq
        /\ nextChunk' = nextChunk
        /\ (jobs' = jobs \/ jobs' = Tail(jobs))

\* C18: the channel has room for numChunks jobs, so the producer sends
\* every job and closes the channel without ever blocking, whatever the
\* workers do; the channel is closed once, after the last send, and no job
\* is sent after the close.
C18_ProducerNeverBlocks == [] C18_StateInv /\ [][C18_StepOK]_vars

\* C18 witness: the channel is closed and still holds every job, two or
\* more, while the started workers have not received any.
C18_Witness ==
    /\ closed
    /\ numChunks >= 2
    /\ Len(jobs) = numChunks
    /\ T >= 1
    /\ spawned = T
    /\ \A w \in Workers : w < spawned => wk[w].st = "recv"

=============================================================================
